---- MODULE Spec2Model ----
(***************************************************************************)
(* A model of sequence_labeling/model/seq_crf.py: the construction of a   *)
(* SequenceCRF (the graph wiring done by __init__ and _build_graph) and    *)
(* the checkpoint interface of the class (update_op, save, restore,        *)
(* get_latest_ckpt, get_ckpt_list).                                        *)
(*                                                                         *)
(*   SpecBuild  the constructor, statement by statement, from line 28 to   *)
(*              the tuple unpacking at line 46.                            *)
(*                                                                         *)
(* The other specifications are about the methods of the class.  They      *)
(* start from the attributes that lines 48-125 of __init__ assign          *)
(* (variable_list, variable_lookup, update_op, the two savers and their    *)
(* directories) for a train-mode and an infer-mode model built from the    *)
(* same hyperparameters and sharing train_ckpt_output_dir.                 *)
(*                                                                         *)
(*   Spec       the trainer updating, saving and restoring the train-mode  *)
(*              model.                                                     *)
(*   SpecStore  the trainer updating and saving, and the checkpoint        *)
(*              directories queried.                                       *)
(*   SpecInfer  the trainer updating and saving, and the infer-mode model  *)
(*              restoring what was saved.                                  *)
(***************************************************************************)
EXTENDS Integers, Sequences, FiniteSets, TLC

VARIABLES
    \* ---- construction (SpecBuild) ----
    pc,          \* position inside __init__ / _build_graph
    hp,          \* the hyperparameters and mode the constructor was given
    graph,       \* layer name -> [inputs, dropout] for the layers built so far
    feat_list,   \* text_feat_list of _build_representation_layer
    ret,         \* the tuple _build_graph returned
    raised,      \* exception that left the constructor, "none" if none
    \* ---- checkpoint interface (Spec) ----
    ema_enable,  \* hyperparams.train_ema_enable
    sess,        \* model -> (graph variable -> value): the model's session
    run,         \* the sess.run(update_op) in progress on the train model
    ckpt,        \* save mode -> checkpoint files kept in that directory, oldest first
    num_update,  \* number of completed update steps
    last,        \* the last method call: its arguments and its outcome
    saved        \* save mode -> the file the most recent save of that mode wrote
                 \* and the train session at that save (history, for the properties)

build_vars == <<pc, hp, graph, feat_list, ret, raised>>
ckpt_vars  == <<ema_enable, sess, run, ckpt, num_update, last, saved>>
vars       == <<pc, hp, graph, feat_list, ret, raised,
                ema_enable, sess, run, ckpt, num_update, last, saved>>

(***************************************************************************)
(* Bounds of the model.                                                    *)
(***************************************************************************)
MaxDropout == 1      \* hyperparameter dropout rates range over 0..MaxDropout

Modes == {"train", "infer"}

(***************************************************************************)
(* Construction: SequenceCRF.__init__ up to line 46, with _build_graph,    *)
(* _build_representation_layer and _build_modeling_layer inlined at their  *)
(* call sites.                                                             *)
(***************************************************************************)

\* The hyperparameters that decide the wiring, and the mode argument.
Hyperparams ==
    [mode : Modes,
     model_word_feat_enable : BOOLEAN,
     model_char_feat_enable : BOOLEAN,
     model_dropout : 0..MaxDropout]

\* `rate if self.mode == "train" else 0.0` (lines 135, 144, 152, 209)
Dropout(h) == IF h.mode = "train" THEN h.model_dropout ELSE 0

Layer(inputs, dropout) == [inputs |-> inputs, dropout |-> dropout]

\* The graph before any layer is built: the data pipeline's tensors (lines 36-42).
PipelineInputs ==
    [n \in {"text_word", "text_char", "label", "sequence_length"} |-> Layer({}, 0)]

\* The number of targets of the assignment at line 46.
UnpackArity == 3

InitBuild ==
    /\ ema_enable = FALSE /\ sess = << >> /\ run = << >> /\ ckpt = << >>
    /\ num_update = 0 /\ last = << >> /\ saved = << >>
    /\ pc = "init"
    /\ hp \in Hyperparams
    /\ graph = << >>
    /\ feat_list = << >>
    /\ ret = << >>
    /\ raised = "none"

\* lines 28-42: base initialisation, global_step, batch input from the pipeline
InitStart ==
    /\ pc = "init"
    /\ graph' = PipelineInputs
    /\ pc' = "word_feat"
    /\ UNCHANGED <<hp, feat_list, ret, raised>>
    /\ UNCHANGED ckpt_vars

\* lines 160-174: the word-level featurizer, when enabled
BuildWordFeat ==
    /\ pc = "word_feat"
    /\ IF hp.model_word_feat_enable
       THEN /\ graph' = graph @@
                 ("word_embedding" :> Layer({"text_word"}, 0)) @@
                 ("word_feat" :> Layer({"word_embedding"}, Dropout(hp)))
            /\ feat_list' = Append(feat_list, "word_feat")
       ELSE UNCHANGED <<graph, feat_list>>
    /\ pc' = "char_feat"
    /\ UNCHANGED <<hp, ret, raised>>
    /\ UNCHANGED ckpt_vars

\* lines 176-189: the char-level featurizer, when enabled
BuildCharFeat ==
    /\ pc = "char_feat"
    /\ IF hp.model_char_feat_enable
       THEN /\ graph' = graph @@
                 ("char_embedding" :> Layer({"text_char"}, 0)) @@
                 ("char_conv" :> Layer({"char_embedding"}, Dropout(hp))) @@
                 ("char_feat" :> Layer({"char_conv"}, 0))
            /\ feat_list' = Append(feat_list, "char_feat")
       ELSE UNCHANGED <<graph, feat_list>>
    /\ pc' = "fusion"
    /\ UNCHANGED <<hp, ret, raised>>
    /\ UNCHANGED ckpt_vars

\* lines 191-199: the fusion module over text_feat_list
BuildFusion ==
    /\ pc = "fusion"
    /\ graph' = graph @@
          ("fusion" :> Layer({feat_list[i] : i \in 1..Len(feat_list)}, Dropout(hp)))
    /\ pc' = "recurrent"
    /\ UNCHANGED <<hp, feat_list, ret, raised>>
    /\ UNCHANGED ckpt_vars

\* lines 218-224: the bidirectional recurrent layer over text_feat
BuildRecurrent ==
    /\ pc = "recurrent"
    /\ graph' = graph @@ ("recurrent" :> Layer({"fusion"}, Dropout(hp)))
    /\ pc' = "projection"
    /\ UNCHANGED <<hp, feat_list, ret, raised>>
    /\ UNCHANGED ckpt_vars

\* lines 226-235: the dense projection over text_sequence_modeling
BuildProjection ==
    /\ pc = "projection"
    /\ graph' = graph @@ ("projection" :> Layer({"recurrent"}, 0))
    /\ pc' = "return"
    /\ UNCHANGED <<hp, feat_list, ret, raised>>
    /\ UNCHANGED ckpt_vars

\* lines 251-254: `return predict, predict_mask`
BuildGraphReturn ==
    /\ pc = "return"
    /\ ret' = <<"projection", "projection_mask">>
    /\ pc' = "unpack"
    /\ UNCHANGED <<hp, graph, feat_list, raised>>
    /\ UNCHANGED ckpt_vars

\* line 46: `predict, predict_mask, transition_matrix = self._build_graph(...)`.
\* Python raises ValueError when the tuple has not exactly three elements; the
\* statements after line 46 run only when the unpacking succeeds.
InitUnpack ==
    /\ pc = "unpack"
    /\ IF Len(ret) = UnpackArity
       THEN pc' = "crf" /\ raised' = "none"
       ELSE pc' = "raised" /\ raised' = "ValueError"
    /\ UNCHANGED <<hp, graph, feat_list, ret>>
    /\ UNCHANGED ckpt_vars

NextBuild ==
    \/ InitStart
    \/ BuildWordFeat
    \/ BuildCharFeat
    \/ BuildFusion
    \/ BuildRecurrent
    \/ BuildProjection
    \/ BuildGraphReturn
    \/ InitUnpack

SpecBuild == InitBuild /\ [][NextBuild]_vars

(***************************************************************************)
(* The checkpoint interface.  The framework objects the class holds are    *)
(* modelled by what the class asks of them: a variable is a name with a    *)
(* value in a session, ExponentialMovingAverage keeps a shadow variable    *)
(* per averaged variable, a Saver built from a dict writes the value of    *)
(* each dict entry under its key and reads it back into the same entry,    *)
(* and a checkpoint directory holds the files its saver still keeps.       *)
(***************************************************************************)
MaxVar        == 2   \* number of trainable variables of the graph
MaxUpdate     == 1   \* update steps run by the trainer
MaxGlobalStep == 2   \* save() is called with global_step in 1..MaxGlobalStep

\* train_ema_decay_rate (line 52), as the fraction DecayNum / DecayDen
DecayNum == 1
DecayDen == 2
\* max_to_keep of the debug saver: the Saver default (line 124)
DefaultMaxToKeep == 5
\* hyperparams.train_num_epoch, max_to_keep of the epoch saver (line 125)
train_num_epoch == 1

CkptTypes == {"debug", "epoch"}
\* the save_mode / ckpt_type arguments tried: the two supported and one other
TypeArgs  == CkptTypes \cup {"other"}
None      == <<"None">>

\* line 48: tf.get_collection(TRAINABLE_VARIABLES), as variable indices
variable_list == 1..MaxVar

\* v.op.name
OpName(v) == <<"var", v>>
\* ema.average_name(v): the name of v's shadow variable, whether or not
\* ema.apply has created it
AverageName(v) == <<"var", v, "ExponentialMovingAverage">>
\* ema.average(v): the shadow variable itself (it carries its own name)
Average(v) == AverageName(v)

\* The variables of a model's graph: the trainable ones and, once line 101
\* has run ema.apply, their shadows.
GraphVariables(mode, ema) ==
    {OpName(v) : v \in variable_list} \cup
    (IF mode = "train" /\ ema THEN {Average(v) : v \in variable_list} ELSE {})

\* variable_lookup as it would be without line 102: the averaged names keep
\* pointing at the trainable variables in train mode too
VariableLookup_WithoutShadows(mode, ema) ==
    IF ~ema
    THEN {<<OpName(v), OpName(v)>> : v \in variable_list}
    ELSE {<<AverageName(v), OpName(v)>> : v \in variable_list}

\* lines 49-53 and 99-102: self.variable_lookup, checkpoint key -> variable
VariableLookup(mode, ema) ==
    IF ~ema
    THEN {<<OpName(v), OpName(v)>> : v \in variable_list}
    ELSE IF mode = "train"
         THEN {<<AverageName(v), Average(v)>> : v \in variable_list}
         ELSE {<<AverageName(v), OpName(v)>> : v \in variable_list}

\* savers built from the dict of line 49, whatever train_ema_enable is
SaverVarList_OpNames(mode, ema, type) ==
    {<<OpName(v), OpName(v)>> : v \in variable_list}

\* lines 124-125: both savers are built from self.variable_lookup
SaverVarList(mode, ema, type) == VariableLookup(mode, ema)

\* lines 124-125: max_to_keep of each saver
MaxToKeep(type) == IF type = "debug" THEN DefaultMaxToKeep ELSE train_num_epoch

Keys(var_list) == {p[1] : p \in var_list}
Target(var_list, k) == (CHOOSE p \in var_list : p[1] = k)[2]

\* lines 99-104: the op update_op denotes
UpdateOp(ema) == IF ema THEN "ema_apply" ELSE "update_model"

\* ema.apply built outside the tf.control_dependencies block
ControlInputs_NoDependency(ema, op) == {}

\* lines 100-101: the control inputs of each op of the update
ControlInputs(ema, op) ==
    IF ema /\ op = "ema_apply" THEN {"update_model"} ELSE {}

\* The ops sess.run(fetch) executes: the fetch and what it depends on.
RunSet(ema, fetch) == {fetch} \cup ControlInputs(ema, fetch)

\* The initial value of a graph variable; a shadow starts at its variable's
\* initial value.
InitialValue(n) == n[2] - 1

Idle == [pending |-> {}, done |-> << >>, post |-> << >>, read |-> << >>]

TrainableValues(s) == [v \in variable_list |-> s[OpName(v)]]

Call(op, model, type, file, exc, result) ==
    [op |-> op, model |-> model, type |-> type, file |-> file,
     exc |-> exc, ret |-> result]

\* The attributes a constructed pair of models holds (lines 48-53, 99-104,
\* 113-125), with freshly initialised variables and empty checkpoint directories.
Init ==
    /\ pc = "constructed" /\ hp = << >> /\ graph = << >> /\ feat_list = << >>
    /\ ret = << >> /\ raised = "none"
    /\ ema_enable \in BOOLEAN
    /\ sess = [m \in Modes |-> [n \in GraphVariables(m, ema_enable) |-> InitialValue(n)]]
    /\ run = Idle
    /\ ckpt = [t \in CkptTypes |-> << >>]
    /\ num_update = 0
    /\ last = Call("init", "train", "none", None, "none", None)
    /\ saved = [t \in CkptTypes |-> [path |-> None, snap |-> << >>]]

(***************************************************************************)
(* sess.run(self.update_op) on the train model.  The session executes the  *)
(* fetched op and its control inputs, each op once all of its control      *)
(* inputs have executed.                                                   *)
(***************************************************************************)
Ready(op) ==
    /\ op \in run.pending
    /\ ControlInputs(ema_enable, op) \subseteq {run.done[i] : i \in 1..Len(run.done)}

RunUpdateOp ==
    /\ run = Idle
    /\ num_update < MaxUpdate
    /\ run' = [Idle EXCEPT !.pending = RunSet(ema_enable, UpdateOp(ema_enable))]
    /\ last' = Call("update", "train", "none", None, "none", None)
    /\ UNCHANGED <<ema_enable, sess, ckpt, num_update>>
    /\ UNCHANGED <<saved, build_vars>>

\* What one optimizer step makes of a trainable value: a different value.
Step(value) == value + 2

\* line 97: update_model, the optimizer's step on every trainable variable
ExecUpdateModel ==
    /\ Ready("update_model")
    /\ sess' = [sess EXCEPT !["train"] =
                   [n \in DOMAIN @ |->
                       IF n \in {OpName(v) : v \in variable_list}
                       THEN Step(@[n]) ELSE @[n]]]
    /\ run' = [run EXCEPT !.pending = @ \ {"update_model"},
                          !.done = Append(@, "update_model"),
                          !.post = TrainableValues(sess'["train"])]
    /\ UNCHANGED <<ema_enable, ckpt, num_update, last>>
    /\ UNCHANGED <<saved, build_vars>>

\* shadow -= (1 - decay) * (shadow - value), in integers
MovingAverage(shadow, value) ==
    (DecayNum * shadow + (DecayDen - DecayNum) * value) \div DecayDen

\* line 101: ema.apply(self.variable_list), the update of every shadow
ExecEmaApply ==
    /\ Ready("ema_apply")
    /\ sess' = [sess EXCEPT !["train"] =
                   [n \in DOMAIN @ |->
                       IF \E v \in variable_list : n = Average(v)
                       THEN LET v == CHOOSE v \in variable_list : n = Average(v)
                            IN  MovingAverage(@[n], @[OpName(v)])
                       ELSE @[n]]]
    /\ run' = [run EXCEPT !.pending = @ \ {"ema_apply"},
                          !.done = Append(@, "ema_apply"),
                          !.read = TrainableValues(sess["train"])]
    /\ UNCHANGED <<ema_enable, ckpt, num_update, last>>
    /\ UNCHANGED <<saved, build_vars>>

RunReturn ==
    /\ run.pending = {}
    /\ run.done # << >>
    /\ run' = Idle
    /\ num_update' = num_update + 1
    /\ last' = Call("update", "train", "none", None, "none", <<"done", run.done>>)
    /\ UNCHANGED <<ema_enable, sess, ckpt>>
    /\ UNCHANGED <<saved, build_vars>>

(***************************************************************************)
(* save, restore, get_latest_ckpt, get_ckpt_list                           *)
(***************************************************************************)
\* os.path.join(dir, name) + "-" + global_step: the file a save writes
Path(type, step) == <<type, step>>

\* What Saver.save writes: the value of every entry of its var_list, under
\* the entry's key.
Snapshot(var_list, s, step) ==
    [step |-> step,
     data |-> [k \in Keys(var_list) |-> s[Target(var_list, k)]]]

\* Saver.save's bookkeeping: a path saved again moves to the end of the list,
\* and the oldest file goes once more than max_to_keep are held.
Keep(files, f, max_to_keep) ==
    LET others == SelectSeq(files, LAMBDA x : x.step # f.step)
        all    == Append(others, f)
    IN  IF Len(all) > max_to_keep THEN Tail(all) ELSE all

\* both checkpoint names placed in the debug directory
CkptDir_Shared(type) == "debug"

\* the directory each mode's saver writes to (lines 113-114, 122-123)
CkptDir(type) == type

\* lines 267-277: save, called by the trainer on the train model
Save(global_step, save_mode) ==
    /\ run = Idle
    /\ IF save_mode \in CkptTypes
       THEN /\ ckpt' = [ckpt EXCEPT ![CkptDir(save_mode)] =
                          Keep(@, Snapshot(SaverVarList("train", ema_enable, save_mode),
                                           sess["train"], global_step),
                               MaxToKeep(save_mode))]
            /\ last' = Call("save", "train", save_mode,
                            Path(CkptDir(save_mode), global_step), "none", None)
            /\ saved' = [saved EXCEPT ![save_mode] =
                            [path |-> Path(CkptDir(save_mode), global_step),
                             snap |-> sess["train"]]]
       ELSE /\ ckpt' = ckpt
            /\ last' = Call("save", "train", save_mode, None, "ValueError", None)
            /\ saved' = saved
    /\ UNCHANGED <<ema_enable, sess, run, num_update>>
    /\ UNCHANGED build_vars

Paths(type) == {Path(type, ckpt[type][i].step) : i \in 1..Len(ckpt[type])}
AllPaths == UNION {Paths(t) : t \in CkptTypes}
FileAt(path) ==
    LET fs == ckpt[path[1]]
    IN  fs[CHOOSE i \in 1..Len(fs) : fs[i].step = path[2]]

\* What Saver.restore assigns: to every entry of its var_list the value the
\* file holds under the entry's key.
Assign(var_list, s, data) ==
    [n \in DOMAIN s |->
        IF \E p \in var_list : p[2] = n
        THEN data[(CHOOSE p \in var_list : p[2] = n)[1]]
        ELSE s[n]]

\* restore with the type checked before the file
RestoreRaises_TypeFirst(ckpt_file, ckpt_type) ==
    IF ckpt_type \notin CkptTypes THEN "ValueError"
    ELSE IF ckpt_file = None THEN "FileNotFoundError"
    ELSE "none"

\* lines 284-292: the exception restore itself raises, "none" when it hands
\* the file to a saver
RestoreRaises(ckpt_file, ckpt_type) ==
    IF ckpt_file = None THEN "FileNotFoundError"
    ELSE IF ckpt_type \notin CkptTypes THEN "ValueError"
    ELSE "none"

\* lines 279-292: restore, on either model.  The saver raises NotFoundError,
\* before assigning anything, when the file lacks one of its keys.
Restore(model, ckpt_file, ckpt_type) ==
    /\ run = Idle
    /\ LET exc == RestoreRaises(ckpt_file, ckpt_type)
       IN  IF exc = "none"
           THEN LET var_list == SaverVarList(model, ema_enable, ckpt_type)
                    data     == FileAt(ckpt_file).data
                IN  IF Keys(var_list) \subseteq DOMAIN data
                    THEN /\ sess' = [sess EXCEPT ![model] = Assign(var_list, @, data)]
                         /\ last' = Call("restore", model, ckpt_type, ckpt_file,
                                         "none", None)
                    ELSE /\ sess' = sess
                         /\ last' = Call("restore", model, ckpt_type, ckpt_file,
                                         "NotFoundError", None)
           ELSE /\ sess' = sess
                /\ last' = Call("restore", model, ckpt_type, ckpt_file, exc, None)
    /\ UNCHANGED <<ema_enable, run, ckpt, num_update>>
    /\ UNCHANGED <<saved, build_vars>>

\* tf.train.get_checkpoint_state(dir): None without a state file, else the
\* paths the directory's saver holds, oldest first
CheckpointState(dir) ==
    IF ckpt[dir] = << >> THEN None
    ELSE <<"state", [i \in 1..Len(ckpt[dir]) |-> Path(dir, ckpt[dir][i].step)]>>

\* tf.train.latest_checkpoint(dir): model_checkpoint_path of the state
LatestCheckpoint(dir) ==
    LET state == CheckpointState(dir)
    IN  IF state = None THEN None ELSE state[2][Len(state[2])]

\* the epoch branch reading self.ckpt_debug_dir
LatestDir_Debug(ckpt_type) == CkptDir("debug")

\* lines 298 and 304: the directory each branch of get_latest_ckpt reads
LatestDir(ckpt_type) == CkptDir(ckpt_type)

\* lines 294-310
GetLatestCkpt(ckpt_type) ==
    /\ run = Idle
    /\ IF ckpt_type \in CkptTypes
       THEN LET ckpt_file == LatestCheckpoint(LatestDir(ckpt_type))
            IN  IF ckpt_file = None
                THEN last' = Call("get_latest_ckpt", "train", ckpt_type, None,
                                  "FileNotFoundError", None)
                ELSE last' = Call("get_latest_ckpt", "train", ckpt_type, None,
                                  "none", ckpt_file)
       ELSE last' = Call("get_latest_ckpt", "train", ckpt_type, None, "ValueError", None)
    /\ UNCHANGED <<ema_enable, sess, run, ckpt, num_update>>
    /\ UNCHANGED <<saved, build_vars>>

\* get_ckpt_list without the `is None` checks of lines 317 and 323, handing
\* a missing state to its caller
GetCkptList_ReturnsNone(ckpt_type) ==
    /\ run = Idle
    /\ IF ckpt_type \in CkptTypes
       THEN LET ckpt_state == CheckpointState(CkptDir(ckpt_type))
            IN  IF ckpt_state = None
                THEN last' = Call("get_ckpt_list", "train", ckpt_type, None, "none", None)
                ELSE last' = Call("get_ckpt_list", "train", ckpt_type, None,
                                  "none", <<"paths", ckpt_state[2]>>)
       ELSE last' = Call("get_ckpt_list", "train", ckpt_type, None, "ValueError", None)
    /\ UNCHANGED <<ema_enable, sess, run, ckpt, num_update>>
    /\ UNCHANGED <<saved, build_vars>>

\* lines 312-328
GetCkptList(ckpt_type) ==
    /\ run = Idle
    /\ IF ckpt_type \in CkptTypes
       THEN LET ckpt_state == CheckpointState(CkptDir(ckpt_type))
            IN  IF ckpt_state = None
                THEN last' = Call("get_ckpt_list", "train", ckpt_type, None,
                                  "FileNotFoundError", None)
                ELSE last' = Call("get_ckpt_list", "train", ckpt_type, None,
                                  "none", <<"paths", ckpt_state[2]>>)
       ELSE last' = Call("get_ckpt_list", "train", ckpt_type, None, "ValueError", None)
    /\ UNCHANGED <<ema_enable, sess, run, ckpt, num_update>>
    /\ UNCHANGED <<saved, build_vars>>

Next ==
    \/ RunUpdateOp
    \/ ExecUpdateModel
    \/ ExecEmaApply
    \/ RunReturn
    \/ \E g \in 1..MaxGlobalStep, m \in TypeArgs : Save(g, m)
    \/ \E f \in AllPaths \cup {None}, t \in TypeArgs : Restore("train", f, t)

\* The trainer updating, saving and restoring its train-mode model.
Spec == Init /\ [][Next]_vars

NextStore ==
    \/ RunUpdateOp
    \/ ExecUpdateModel
    \/ ExecEmaApply
    \/ RunReturn
    \/ \E g \in 1..MaxGlobalStep, m \in TypeArgs : Save(g, m)
    \/ \E t \in TypeArgs : GetLatestCkpt(t)
    \/ \E t \in TypeArgs : GetCkptList(t)

\* The trainer updating and saving, and the checkpoint directories queried.
SpecStore == Init /\ [][NextStore]_vars

NextInfer ==
    \/ RunUpdateOp
    \/ ExecUpdateModel
    \/ ExecEmaApply
    \/ RunReturn
    \/ \E g \in 1..MaxGlobalStep, m \in CkptTypes : Save(g, m)
    \/ \E f \in AllPaths, t \in CkptTypes : Restore("infer", f, t)

\* The trainer writing checkpoints and the infer-mode model reading them.
SpecInfer == Init /\ [][NextInfer]_vars

(***************************************************************************)
(* Properties                                                              *)
(***************************************************************************)
Shadows(s) == [v \in variable_list |-> s[Average(v)]]
RestoredOn(model) == last.op = "restore" /\ last.model = model /\ last.exc = "none"
Finished == pc \in {"raised", "crf"}

\* the train session at the save that wrote the file the last call restored,
\* when that save is the most recent one of its mode
SnapOfRestored == saved[last.file[1]].snap
RestoredLatestOn(model) ==
    /\ RestoredOn(model)
    /\ saved[last.file[1]].path = last.file

C2_ShadowAfterOptimizer ==
    /\ ema_enable =>
          /\ UpdateOp(ema_enable) = "ema_apply"
          /\ "ema_apply" \in {run.done[i] : i \in 1..Len(run.done)} =>
                /\ run.done = <<"update_model", "ema_apply">>
                /\ run.read = run.post
          /\ (last.op = "update" /\ last.ret # None) =>
                last.ret = <<"done", <<"update_model", "ema_apply">> >>
    /\ ~ema_enable =>
          /\ UpdateOp(ema_enable) = "update_model"
          /\ \A v \in variable_list : Average(v) \notin DOMAIN sess["train"]
          /\ (last.op = "update" /\ last.ret # None) =>
                last.ret = <<"done", <<"update_model">> >>

\* C2 witness: a run of update_op with EMA enabled has executed both ops and
\* the shadow update read the updated values.
C2_Witness ==
    /\ ema_enable
    /\ run.done = <<"update_model", "ema_apply">>
    /\ run.read = run.post
    /\ run.read = TrainableValues(sess["train"])
    /\ Shadows(sess["train"]) # TrainableValues(sess["train"])

\* C3: with EMA enabled, a save by the train-mode model stores, under
\* average_name(v) for each trainable variable v and under no other key, the
\* value of v's shadow; the infer-mode model's savers have the same keys; and
\* a restore on the infer-mode model succeeds and leaves each of its trainable
\* variables v at the value stored under average_name(v).
C3_InferenceUsesShadows ==
    [][ema_enable =>
          /\ last'.op = "save" =>
                \E i \in 1..Len(ckpt'[last'.type]) :
                    LET f == ckpt'[last'.type][i]
                    IN  /\ Path(last'.type, f.step) = last'.file
                        /\ DOMAIN f.data = {AverageName(v) : v \in variable_list}
                        /\ \A v \in variable_list :
                              f.data[AverageName(v)] = sess["train"][Average(v)]
          /\ \A t \in CkptTypes :
                Keys(SaverVarList("infer", ema_enable, t)) =
                    Keys(SaverVarList("train", ema_enable, t))
          /\ (last'.op = "restore" /\ last'.model = "infer") =>
                /\ last'.exc = "none"
                /\ \A v \in variable_list :
                      sess'["infer"][OpName(v)] =
                          FileAt(last'.file).data[AverageName(v)]]_vars

\* C3 witness: the infer-mode model has restored the latest checkpoint, and
\* its trainable variables hold the shadow values of the train-mode model at
\* the save, which differ from that model's trainable values at the save.
C3_Witness ==
    /\ ema_enable
    /\ RestoredLatestOn("infer")
    /\ TrainableValues(sess["infer"]) = Shadows(SnapOfRestored)
    /\ TrainableValues(sess["infer"]) # TrainableValues(SnapOfRestored)

\* C4: when construction is over the layers are wired in the fixed order:
\* the fusion layer consumes exactly the outputs of the enabled featurizers,
\* the recurrent layer the fusion output, the projection the recurrent output,
\* and a CRF output layer consumes the projection output and the transition
\* matrix.
C4_Composition ==
    Finished =>
        /\ graph["fusion"].inputs =
              (IF hp.model_word_feat_enable THEN {"word_feat"} ELSE {}) \cup
              (IF hp.model_char_feat_enable THEN {"char_feat"} ELSE {})
        /\ graph["recurrent"].inputs = {"fusion"}
        /\ graph["projection"].inputs = {"recurrent"}
        /\ "transition_matrix" \in DOMAIN graph
        /\ "crf" \in DOMAIN graph
        /\ {"projection", "transition_matrix"} \subseteq graph["crf"].inputs

\* C5: _build_graph returns exactly the three values line 46 unpacks, and
\* construction goes on to the CRF layer without raising.
C5_ConstructionCompletes ==
    /\ pc \in {"unpack", "raised", "crf"} => Len(ret) = UnpackArity
    /\ raised = "none"
    /\ Finished => pc = "crf"

\* C6: a save writes exactly one checkpoint, in the directory of its mode: a
\* supported mode raises nothing, the saved file is then held in that mode's
\* directory with the session's current values, every other file of that
\* directory is as it was before, and the other directory is unchanged; any
\* other mode raises ValueError and leaves both directories unchanged.
C6_SaveWritesOneStore ==
    [][last'.op = "save" =>
          IF last'.type \in CkptTypes
          THEN LET mode  == last'.type
                   other == CHOOSE t \in CkptTypes : t # mode
               IN  /\ last'.exc = "none"
                   /\ last'.file[1] = mode
                   /\ last'.file \in {Path(mode, ckpt'[mode][i].step) :
                                          i \in 1..Len(ckpt'[mode])}
                   /\ \A i \in 1..Len(ckpt'[mode]) :
                         \/ Path(mode, ckpt'[mode][i].step) = last'.file
                         \/ \E j \in 1..Len(ckpt[mode]) : ckpt[mode][j] = ckpt'[mode][i]
                   /\ ckpt'[other] = ckpt[other]
                   /\ sess' = sess
          ELSE /\ last'.exc = "ValueError"
               /\ ckpt' = ckpt
               /\ sess' = sess]_vars

\* C6 witness: a debug save has happened while the epoch directory holds a file
\* and the debug directory holds another one.
C6_Witness ==
    /\ last.op = "save" /\ last.type = "debug" /\ last.exc = "none"
    /\ ckpt["epoch"] # << >>
    /\ Len(ckpt["debug"]) = 2

\* C7: get_latest_ckpt(t) returns the file written by the most recent save of
\* mode t, whatever saves of the other mode happened.
C7_LatestIsMostRecentSave ==
    /\ \A t \in CkptTypes :
          (last.op = "get_latest_ckpt" /\ last.type = t /\ last.exc = "none") =>
              (saved[t].path # None /\ last.ret = saved[t].path)
    /\ \A t \in CkptTypes :
          (last.op = "get_latest_ckpt" /\ last.type = t /\ saved[t].path # None) =>
              last.exc = "none"

\* C7 witness: get_latest_ckpt("debug") returned the file of the most recent
\* debug save although a debug file of a higher step and an epoch file exist.
C7_Witness ==
    /\ last.op = "get_latest_ckpt" /\ last.type = "debug" /\ last.exc = "none"
    /\ last.ret = Path("debug", 1)
    /\ Path("debug", 2) \in Paths("debug")
    /\ ckpt["epoch"] # << >>

\* C8: get_latest_ckpt(t) and get_ckpt_list(t) raise FileNotFoundError exactly
\* when no checkpoint of type t has been saved, raise ValueError for every
\* unsupported t, return a value other than None otherwise, and leave the
\* checkpoints and the sessions as they were.
C8_GettersRaise ==
    [][last'.op \in {"get_latest_ckpt", "get_ckpt_list"} =>
          /\ IF last'.type \in CkptTypes
             THEN /\ last'.exc = "FileNotFoundError" <=> saved[last'.type].path = None
                  /\ last'.exc \in {"FileNotFoundError", "none"}
             ELSE last'.exc = "ValueError"
          /\ last'.exc = "none" => last'.ret # None
          /\ last'.exc # "none" => last'.ret = None
          /\ ckpt' = ckpt
          /\ sess' = sess]_vars

\* C8 witness: get_ckpt_list("epoch") raised FileNotFoundError while debug
\* checkpoints exist.
C8_Witness ==
    /\ last.op = "get_ckpt_list" /\ last.type = "epoch"
    /\ last.exc = "FileNotFoundError"
    /\ ckpt["debug"] # << >>

\* C9: restore raises FileNotFoundError when ckpt_file is None, whatever the
\* type; raises ValueError when the file is given and the type is unsupported;
\* changes no variable in either case; and otherwise assigns the file's values
\* through the saver of the given type.
C9_RestoreChecksFileFirst ==
    [][last'.op = "restore" =>
          /\ last'.file = None => last'.exc = "FileNotFoundError"
          /\ (last'.file # None /\ last'.type \notin CkptTypes) =>
                last'.exc = "ValueError"
          /\ last'.exc # "none" => sess' = sess
          /\ (last'.file # None /\ last'.type \in CkptTypes) =>
                /\ last'.exc = "none"
                /\ \A p \in SaverVarList(last'.model, ema_enable, last'.type) :
                      sess'[last'.model][p[2]] = FileAt(last'.file).data[p[1]]
          /\ ckpt' = ckpt]_vars

\* C9 witness: restore(None, unsupported type) raised FileNotFoundError.
C9_Witness ==
    /\ last.op = "restore"
    /\ last.file = None
    /\ last.type = "other"
    /\ last.exc = "FileNotFoundError"

====
